---- MODULE Spec2Model ----
(***************************************************************************)
(* Model of the analytics core of the customer-clustering dashboard:       *)
(* the `insights` computation of AnalyticsDashboard (field classification, *)
(* feature extraction, normalisation, k-means, segment naming, segment     *)
(* distribution, top segment).                                             *)
(*                                                                         *)
(* Conventions                                                             *)
(*  - JavaScript arrays are sequences; a 0-based index i of the code is    *)
(*    position i+1 here.  Cluster ids keep their 0-based values.           *)
(*  - A column name is a sequence of one-character strings, so that        *)
(*    String.includes and toLowerCase are computed, not assumed.           *)
(*  - A row is the sequence of its cells, aligned with `fields`            *)
(*    (Object.keys of the row).                                            *)
(*  - A cell is [kind, n]: "num" is a number or a clean numeric string,    *)
(*    "prefix" a numeric prefix followed by other characters ("4abc"),     *)
(*    "text" a non-empty string with no numeric prefix, "empty" the        *)
(*    empty string, "inf" a numeric string beyond the range of a double    *)
(*    ("1e999", n is its sign), "date" a date string ("2024-01-15", n is   *)
(*    its year, which is also its numeric prefix).                         *)
(*  - A JavaScript number of the monetary metrics is [nan, inf, n]: NaN,   *)
(*    +Infinity or -Infinity (inf = 1 or -1), or the finite value n.       *)
(*  - Means are kept as exact fractions [num, den]; the threshold          *)
(*    comparisons of the segment namer are evaluated on these fractions.   *)
(*    For the cell values and dataset sizes of Inputs the double           *)
(*    comparisons of the code decide the same way.                         *)
(*  - The percentage of a segment is computed in IEEE-754 double           *)
(*    arithmetic (53-bit significands, round to nearest even), as the      *)
(*    code computes it.                                                    *)
(***************************************************************************)
EXTENDS Integers, Sequences, FiniteSets, TLC

VARIABLES fields, data, pc, clusterResults, kmeansCalls, segmentNames, insights,
          kValue, matrix, normalized,
          aiInsights, loadingAI, reportType, pending, aiRequests, loads,
          uploadedFile, fileSize, isLoading, previousUploads, uploadToast, csvUploads, handlers,
          request, env, log, response

vars == <<fields, data, pc, clusterResults, kmeansCalls, segmentNames, insights,
          kValue, matrix, normalized,
          aiInsights, loadingAI, reportType, pending, aiRequests, loads,
          uploadedFile, fileSize, isLoading, previousUploads, uploadToast, csvUploads, handlers,
          request, env, log, response>>

(* the state of the AI insight requests and of the uploads *)
sessionVars == <<aiInsights, loadingAI, reportType, pending, aiRequests, loads>>

(* the result of the analysis *)
analysisVars == <<clusterResults, kmeansCalls, segmentNames, insights, kValue>>

(* the state of the FileUpload component, the rows of the csv_uploads      *)
(* table and the invocations of handleFile that have not finished          *)
uploadVars == <<uploadedFile, fileSize, isLoading, previousUploads, uploadToast, csvUploads, handlers>>

(* one invocation of the generate-insights function *)
serveVars == <<request, env, log, response>>

(* ---------------------------------------------------------------- bounds *)
MaxRows == 3

(* datasets loaded in one session of the page *)
MaxLoads == 2

(* files handed to handleFile and not rejected by the database *)
MaxUploads == 2

(* requests for AI insights in one session of the page *)
MaxRequests == 3

(* ------------------------------------------------------------- utilities *)
Null == [null |-> TRUE]

Min(a, b) == IF a < b THEN a ELSE b

Range(s) == {s[i] : i \in 1..Len(s)}

RECURSIVE SumSeq(_)
SumSeq(s) == IF s = <<>> THEN 0 ELSE s[1] + SumSeq(Tail(s))

RECURSIVE Repeat(_, _)
Repeat(x, m) == IF m = 0 THEN <<>> ELSE <<x>> \o Repeat(x, m - 1)

(* first position of x in s, 0 when absent (Array.indexOf / findIndex + 1) *)
IndexOf(s, x) ==
    IF \E i \in 1..Len(s) : s[i] = x
    THEN CHOOSE i \in 1..Len(s) : s[i] = x /\ \A j \in 1..(i - 1) : s[j] # x
    ELSE 0

(* ------------------------------------------------------------ strings *)
UpperLetters == <<"A","B","C","D","E","F","G","H","I","J","K","L","M",
                  "N","O","P","Q","R","S","T","U","V","W","X","Y","Z">>
LowerLetters == <<"a","b","c","d","e","f","g","h","i","j","k","l","m",
                  "n","o","p","q","r","s","t","u","v","w","x","y","z">>

toLowerCase(name) ==
    [i \in 1..Len(name) |->
        IF IndexOf(UpperLetters, name[i]) > 0
        THEN LowerLetters[IndexOf(UpperLetters, name[i])]
        ELSE name[i]]

includes(name, pat) ==
    \E i \in 1..(Len(name) - Len(pat) + 1) :
        SubSeq(name, i, i + Len(pat) - 1) = pat

AmountPatterns == << <<"a","m","o","u","n","t">>,
                     <<"r","e","v","e","n","u","e">>,
                     <<"v","a","l","u","e">>,
                     <<"t","o","t","a","l">> >>

IsAmountName(f) ==
    \E p \in 1..Len(AmountPatterns) : includes(toLowerCase(f), AmountPatterns[p])

DatePatterns == << <<"d","a","t","e">>,
                   <<"t","i","m","e">>,
                   <<"c","r","e","a","t","e","d">> >>

IsDateName(f) ==
    \E p \in 1..Len(DatePatterns) : includes(toLowerCase(f), DatePatterns[p])

DigitChars == <<"0","1","2","3","4","5","6","7","8","9">>

(* String(n) for an integer n >= 0 *)
RECURSIVE ToDigits(_)
ToDigits(n) ==
    IF n < 10 THEN <<DigitChars[n + 1]>>
    ELSE ToDigits(n \div 10) \o <<DigitChars[(n % 10) + 1]>>

(* parseInt of a string of decimal digits *)
RECURSIVE parseInt(_)
parseInt(str) ==
    IF str = <<>> THEN 0
    ELSE (10 * parseInt(SubSeq(str, 1, Len(str) - 1))) + (IndexOf(DigitChars, str[Len(str)]) - 1)

(* str.padStart(len, '0') *)
padStart(str, len) == IF Len(str) < len THEN Repeat("0", len - Len(str)) \o str ELSE str

(* a.localeCompare(b) < 0 for strings of digits and hyphens: the first     *)
(* differing character decides, a hyphen sorting before the digits and a   *)
(* proper prefix before the longer string                                  *)
CharRank(c) == IF c = "-" THEN 0 ELSE IndexOf(DigitChars, c)

ComparesBefore(a, b) ==
    \E i \in 1..Len(b) :
        /\ \A j \in 1..(i - 1) : j <= Len(a) /\ a[j] = b[j]
        /\ (i > Len(a) \/ CharRank(a[i]) < CharRank(b[i]))

(* ------------------------------------------------------------ cells *)
Num(x) == [kind |-> "num", n |-> x]
Text == [kind |-> "text", n |-> 0]

Prefix(x) == [kind |-> "prefix", n |-> x]
Empty == [kind |-> "empty", n |-> 0]
Overflow(sign) == [kind |-> "inf", n |-> sign]
DateCell(year, month) == [kind |-> "date", n |-> year, month |-> month]

(* JavaScript numbers *)
Finite(x) == [nan |-> FALSE, inf |-> 0, n |-> x]
Infinite(sign) == [nan |-> FALSE, inf |-> sign, n |-> 0]
NaN == [nan |-> TRUE, inf |-> 0, n |-> 0]

(* parseFloat: the numeric prefix of the value, NaN when there is none *)
parseFloat(v) ==
    IF v.kind \in {"num", "prefix", "date"} THEN Finite(v.n)
    ELSE IF v.kind = "inf" THEN Infinite(v.n)
    ELSE NaN

(* global isFinite: Number(value) is a finite number; Number("") is 0 *)
isFinite(v) == v.kind \in {"num", "empty"}

(* a variant with the default 1 *)
ParseOrOne(v) ==
    IF parseFloat(v).nan THEN 1
    ELSE IF parseFloat(v).inf # 0 THEN parseFloat(v)
    ELSE parseFloat(v).n

(* parseFloat(x) || 0 as a feature value: NaN and 0 both give 0 *)
ParseOrZero(v) ==
    IF parseFloat(v).nan THEN 0
    ELSE IF parseFloat(v).inf # 0 THEN parseFloat(v)
    ELSE parseFloat(v).n

(* x || 0 on a number: NaN and 0 are falsy *)
OrZero(x) == IF x.nan \/ (x.inf = 0 /\ x.n = 0) THEN Finite(0) ELSE x

(* a + b on numbers *)
Plus(a, b) ==
    IF a.nan \/ b.nan \/ (a.inf * b.inf = -1) THEN NaN
    ELSE IF a.inf # 0 THEN a
    ELSE IF b.inf # 0 THEN b
    ELSE Finite(a.n + b.n)

(* reduce((sum, x) => sum + x, 0) on numbers *)
RECURSIVE SumNumbers(_)
SumNumbers(s) ==
    IF s = <<>> THEN Finite(0)
    ELSE Plus(SumNumbers(SubSeq(s, 1, Len(s) - 1)), s[Len(s)])

(* x / c on a number, for an integer c > 0; a finite quotient is kept as   *)
(* the fraction num / den                                                  *)
Quotient(x, c) == [nan |-> x.nan, inf |-> x.inf, num |-> x.n, den |-> c]

(* row[field], the cell of a row under a column name *)
Get(flds, row, f) == row[IndexOf(flds, f)]

(* ------------------------------------------- IEEE-754 double arithmetic *)
(* A positive double is [d, e]: its value is (1 + f) * 2^e, where the 52   *)
(* fraction bits f are held in d as four digits of 13 bits, most           *)
(* significant digit first.  Results are rounded to nearest, ties to even. *)
DigitBase == 8192

RECURSIVE Pow2(_)
Pow2(i) == IF i = 0 THEN 1 ELSE 2 * Pow2(i - 1)

(* floor(log2(x)) for 1 <= x < 2^30 *)
Log2(x) == CHOOSE s \in 0..29 : Pow2(s) <= x /\ x < Pow2(s + 1)

(* fraction digits + 1 unit in the last place; carry tells that the       *)
(* fraction wrapped to 0                                                  *)
RECURSIVE Increment(_)
Increment(d) ==
    IF d = <<>> THEN [d |-> <<>>, carry |-> 1]
    ELSE IF d[Len(d)] + 1 < DigitBase
         THEN [d |-> SubSeq(d, 1, Len(d) - 1) \o <<d[Len(d)] + 1>>, carry |-> 0]
         ELSE LET up == Increment(SubSeq(d, 1, Len(d) - 1))
              IN  [d |-> up.d \o <<0>>, carry |-> up.carry]

(* round to nearest even given the discarded part: guard is the first     *)
(* discarded bit, sticky tells whether anything non-zero follows it       *)
RoundNearestEven(d, e, guard, sticky) ==
    IF guard = 1 /\ (sticky \/ (d[Len(d)] % 2) = 1)
    THEN LET up == Increment(d)
         IN  [d |-> up.d, e |-> e + up.carry]
    ELSE [d |-> d, e |-> e]

(* the double nearest to a / b, for integers 1 <= a, b < 2^17 *)
FloatDivide(a, b) ==
    LET up   == CHOOSE s \in 0..17 : a * Pow2(s) >= b /\ (s = 0 \/ a * Pow2(s - 1) < b)
        num  == a * Pow2(up)
        down == Log2(num \div b)
        den  == b * Pow2(down)
        r0   == num - den
        r1   == (r0 * DigitBase) % den
        r2   == (r1 * DigitBase) % den
        r3   == (r2 * DigitBase) % den
        r4   == (r3 * DigitBase) % den
        d    == << (r0 * DigitBase) \div den, (r1 * DigitBase) \div den,
                   (r2 * DigitBase) \div den, (r3 * DigitBase) \div den >>
        g    == IF 2 * r4 >= den THEN 1 ELSE 0
    IN  RoundNearestEven(d, down - up, g, ((2 * r4) - (g * den)) # 0)

(* the double nearest to x * c, for a double x and an integer 1 <= c < 2^12 *)
FloatTimes(x, c) ==
    LET p4    == x.d[4] * c
        p3    == (x.d[3] * c) + (p4 \div DigitBase)
        p2    == (x.d[2] * c) + (p3 \div DigitBase)
        p1    == (x.d[1] * c) + (p2 \div DigitBase)
        top   == c + (p1 \div DigitBase)
        full  == << top, p1 % DigitBase, p2 % DigitBase, p3 % DigitBase, p4 % DigitBase >>
        extra == Log2(top)
        low   == Pow2(extra)
        d     == [i \in 1..4 |-> ((full[i] % low) * (DigitBase \div low)) + (full[i + 1] \div low)]
        lost  == full[5] % low
    IN  IF extra = 0 THEN [d |-> d, e |-> x.e]
        ELSE RoundNearestEven(d, x.e + extra, lost \div (low \div 2), (lost % (low \div 2)) # 0)

(* a < b on positive doubles *)
FloatLess(a, b) ==
    \/ a.e < b.e
    \/ /\ a.e = b.e
       /\ \E i \in 1..4 : a.d[i] < b.d[i] /\ \A j \in 1..(i - 1) : a.d[j] = b.d[j]

(* the double nearest to x + y, for positive doubles whose exponents       *)
(* differ by less than 13                                                  *)
FloatAdd(x, y) ==
    LET a     == IF FloatLess(x, y) THEN y ELSE x
        b     == IF FloatLess(x, y) THEN x ELSE y
        shift == a.e - b.e
        low   == Pow2(shift)
        A     == <<1>> \o a.d
        B     == <<1>> \o b.d
        sb    == [i \in 1..5 |->
                     (B[i] \div low)
                     + (IF i > 1 THEN (B[i - 1] % low) * (DigitBase \div low) ELSE 0)]
        lost  == B[5] % low
        t5    == A[5] + sb[5]
        t4    == A[4] + sb[4] + (t5 \div DigitBase)
        t3    == A[3] + sb[3] + (t4 \div DigitBase)
        t2    == A[2] + sb[2] + (t3 \div DigitBase)
        t1    == A[1] + sb[1] + (t2 \div DigitBase)
        full  == << t1, t2 % DigitBase, t3 % DigitBase, t4 % DigitBase, t5 % DigitBase >>
    IN  IF t1 = 1
        THEN IF shift = 0 THEN [d |-> SubSeq(full, 2, 5), e |-> a.e]
             ELSE RoundNearestEven(SubSeq(full, 2, 5), a.e,
                                   lost \div (low \div 2), (lost % (low \div 2)) # 0)
        ELSE RoundNearestEven(
                 [i \in 1..4 |-> ((full[i] % 2) * (DigitBase \div 2)) + (full[i + 1] \div 2)],
                 a.e + 1, full[5] % 2, lost # 0)

(* the double nearest to x / c, for a positive double x and an integer     *)
(* 1 <= c < 2^12                                                           *)
FloatOver(x, c) ==
    LET up   == CHOOSE t \in 0..12 : Pow2(t) >= c /\ (t = 0 \/ Pow2(t - 1) < c)
        P    == Pow2(up)
        M    == <<1>> \o x.d
        N    == [i \in 1..5 |->
                    (IF i = 1 THEN M[1] * P ELSE (M[i] * P) % DigitBase)
                    + (IF i < 5 THEN (M[i + 1] * P) \div DigitBase ELSE 0)]
        q1   == N[1] \div c
        r1   == N[1] % c
        q2   == ((r1 * DigitBase) + N[2]) \div c
        r2   == ((r1 * DigitBase) + N[2]) % c
        q3   == ((r2 * DigitBase) + N[3]) \div c
        r3   == ((r2 * DigitBase) + N[3]) % c
        q4   == ((r3 * DigitBase) + N[4]) \div c
        r4   == ((r3 * DigitBase) + N[4]) % c
        q5   == ((r4 * DigitBase) + N[5]) \div c
        r5   == ((r4 * DigitBase) + N[5]) % c
        full == << q1, q2, q3, q4, q5 >>
        g    == IF 2 * r5 >= c THEN 1 ELSE 0
    IN  IF q1 = 1
        THEN RoundNearestEven(SubSeq(full, 2, 5), x.e - up, g, ((2 * r5) - (g * c)) # 0)
        ELSE RoundNearestEven(
                 [i \in 1..4 |-> ((full[i] % 2) * (DigitBase \div 2)) + (full[i + 1] \div 2)],
                 (x.e - up) + 1, full[5] % 2, r5 # 0)

(* Math.round of a positive double below 2^13: nearest integer, ties up *)
MathRound(x) ==
    IF x.e < -1 THEN 0
    ELSE IF x.e = -1 THEN 1
    ELSE Pow2(x.e) + (x.d[1] \div Pow2(13 - x.e)) + ((x.d[1] \div Pow2(12 - x.e)) % 2)

(* a variant that rounds the quotient before scaling it *)
PercentageRoundedFirst(value, totalCustomers) ==
    MathRound(FloatDivide(value, totalCustomers)) * 100

(* Math.round((value / totalCustomers) * 100) *)
Percentage(value, totalCustomers) ==
    MathRound(FloatTimes(FloatDivide(value, totalCustomers), 100))

(* ------------------------------------------------------ field classifier *)
amountFields(flds) == SelectSeq(flds, IsAmountName)

dateFields(flds) == SelectSeq(flds, IsDateName)

SampleRows == 100

IsNumericValue(v) == (~parseFloat(v).nan) /\ isFinite(v)

numericFields(flds, d) ==
    SelectSeq(flds, LAMBDA f :
        \E i \in 1..Min(SampleRows, Len(d)) : IsNumericValue(Get(flds, d[i], f)))

(* ----------------------------------------------------- feature extractor *)
clusteringData(flds, d) ==
    LET nf == numericFields(flds, d)
    IN  [i \in 1..Len(d) |->
            [j \in 1..Len(nf) |->
                LET value == parseFloat(Get(flds, d[i], nf[j]))
                IN  IF value.nan THEN 0
                    ELSE IF value.inf # 0 THEN value
                    ELSE value.n]]

(* ------------------------------------------------------------ normalizer *)
(* An entry of the matrix is an integer, [int |-> TRUE, n], or a positive  *)
(* double that is no integer, [int |-> FALSE, d, e]; a column holds        *)
(* entries of one kind.                                                    *)
Exact(x) == [int |-> TRUE, n |-> x]

(* the double a decimal string of value a / b parses to *)
Decimal(a, b) == [int |-> FALSE, d |-> FloatDivide(a, b).d, e |-> FloatDivide(a, b).e]

(* a matrix of integers as a matrix of entries *)
AsNumbers(m) == [i \in 1..Len(m) |-> [j \in 1..Len(m[i]) |-> Exact(m[i][j])]]

(* means[j] += data[i][j] over the rows, in doubles *)
RECURSIVE FloatSum(_)
FloatSum(column) ==
    IF Len(column) = 1 THEN [d |-> column[1].d, e |-> column[1].e]
    ELSE FloatAdd(FloatSum(SubSeq(column, 1, Len(column) - 1)), column[Len(column)])

(* Integer columns: the sums are exact.  With n rows, column sum S and     *)
(* Q = n * sum(x^2) - S^2 (n^2 times the population variance), the z-score *)
(* (x - S/n) / sqrt(Q/n^2) of an entry is (n*x - S) / sqrt(Q).  An entry   *)
(* of the result is kept as [c, q], standing for the real number           *)
(* c / sqrt(q); a zero deviation is replaced by 1, that is q = n^2.        *)
(* Columns of doubles: the mean is the rounded sum divided by n and        *)
(* rounded again; an entry equal to the mean gives 0, any other entry a    *)
(* non-zero quotient (x - mean) / std, kept as its sign c with its value   *)
(* and the mean it is computed from.                                       *)
normalizeData(d) ==
    IF Len(d) = 0 \/ Len(d[1]) = 0 THEN d
    ELSE LET n       == Len(d)
             exact(j) == \A i \in 1..n : d[i][j].int
             S(j)    == SumSeq([i \in 1..n |-> d[i][j].n])
             Q(j)    == (n * SumSeq([i \in 1..n |-> d[i][j].n * d[i][j].n])) - (S(j) * S(j))
             std(j)  == IF Q(j) = 0 THEN n * n ELSE Q(j)
             mean(j) == FloatOver(FloatSum([i \in 1..n |-> d[i][j]]), n)
             sign(x, m) == IF x.d = m.d /\ x.e = m.e THEN 0
                           ELSE IF FloatLess(x, m) THEN -1 ELSE 1
         IN  [i \in 1..n |->
                [j \in 1..Len(d[1]) |->
                    IF exact(j)
                    THEN [c |-> (n * d[i][j].n) - S(j), q |-> std(j)]
                    ELSE [c |-> sign(d[i][j], mean(j)), value |-> d[i][j], mean |-> mean(j)]]]

(* ------------------------------------------------------ clustering engine *)
MaxClusters == 5

(* a variant that always asks for the largest number of clusters *)
ClusterCountFixed(d) == MaxClusters

(* const k = Math.min(5, data.length) *)
ClusterCount(d) == Min(MaxClusters, Len(d))

(* ml-kmeans is a library: of its result the analysis reads only           *)
(* `clusters`, one id in 0..k-1 per point.  Each point is assigned to its  *)
(* nearest centroid, so equal points share an id; nothing else is assumed  *)
(* (some ids may have no point).                                           *)
kmeans(points, k) ==
    LET distinct == Range(points)
    IN  { [clusters |-> [i \in 1..Len(points) |-> g[points[i]]]] :
            g \in [distinct -> 0..(k - 1)] }

(* const clusterResults = normalizedData.length > 0 ? kmeans(...) : null *)
ClusterResultsFor(flds, d) ==
    LET normalizedData == IF Len(clusteringData(flds, d)) > 0
                          THEN normalizeData(AsNumbers(clusteringData(flds, d)))
                          ELSE <<>>
        k == ClusterCount(d)
    IN  IF Len(normalizedData) > 0 THEN kmeans(normalizedData, k) ELSE {Null}

KmeansInvoked(flds, d) ==
    LET normalizedData == IF Len(clusteringData(flds, d)) > 0
                          THEN normalizeData(AsNumbers(clusteringData(flds, d)))
                          ELSE <<>>
    IN  Len(normalizedData) > 0

(* ---------------------------------------------------------- segment namer *)
SegmentLabel(i) == <<"Segment 1", "Segment 2", "Segment 3", "Segment 4", "Segment 5">>[i]

(* Array.from({length: k}, ...).filter(Boolean): the statistics of the     *)
(* clusters that have points, in ascending cluster id, the others removed  *)
clusterStats(cd, cr, k, nf) ==
    LET statOf(c) ==
            LET size == Cardinality({idx \in 1..Len(cd) : cr.clusters[idx] = c - 1})
            IN  IF size = 0 THEN Null
                ELSE [clusterId |-> c - 1,
                      avgValues |-> [j \in 1..Len(nf) |->
                          [num |-> SumSeq([idx \in 1..Len(cd) |->
                                      IF cr.clusters[idx] = c - 1 THEN cd[idx][j] ELSE 0]),
                           den |-> size]],
                      size |-> size]
    IN  SelectSeq([c \in 1..k |-> statOf(c)], LAMBDA st : st # Null)

(* numericFields.findIndex(f => amountFields.includes(f)) + 1; 0 if none *)
primaryValueFieldIdx(nf, af) ==
    IF \E j \in 1..Len(nf) : nf[j] \in Range(af)
    THEN CHOOSE j \in 1..Len(nf) :
            nf[j] \in Range(af) /\ \A h \in 1..(j - 1) : nf[h] \notin Range(af)
    ELSE 0

(* avgValue > overallAvg * (tenths / 10), on fractions with positive       *)
(* denominators                                                            *)
ExceedsScaled(avgValue, overallAvg, tenths) ==
    avgValue.num * overallAvg.den * 10 > overallAvg.num * tenths * avgValue.den

(* size / total > hundredths / 100 *)
RelativeSizeAbove(size, total, hundredths) == size * 100 > hundredths * total

ValueBasedName(avgValue, overallAvg, size, total) ==
    IF ExceedsScaled(avgValue, overallAvg, 15)
    THEN IF RelativeSizeAbove(size, total, 15) THEN "High Value" ELSE "Premium"
    ELSE IF ExceedsScaled(avgValue, overallAvg, 8)
    THEN IF RelativeSizeAbove(size, total, 25) THEN "Core Customers" ELSE "Regular"
    ELSE IF ExceedsScaled(avgValue, overallAvg, 3)
    THEN "Potential Growth"
    ELSE IF RelativeSizeAbove(size, total, 20) THEN "Entry Level" ELSE "At Risk"

SizeBasedName(size, total) ==
    IF RelativeSizeAbove(size, total, 30) THEN "Majority Segment"
    ELSE IF RelativeSizeAbove(size, total, 20) THEN "Significant Group"
    ELSE IF RelativeSizeAbove(size, total, 10) THEN "Niche Segment"
    ELSE "Emerging Group"

generateSegmentNames(flds, d, cr) ==
    LET nf == numericFields(flds, d)
        cd == clusteringData(flds, d)
        k  == ClusterCount(d)
    IN  IF cr = Null \/ Len(nf) = 0
        THEN [i \in 1..k |-> SegmentLabel(i)]
        ELSE LET stats   == clusterStats(cd, cr, k, nf)
                 primary == primaryValueFieldIdx(nf, amountFields(flds))
                 overallAvg ==
                     [num |-> SumSeq([i \in 1..Len(cd) |-> cd[i][primary]]), den |-> Len(cd)]
             IN  [p \in 1..Len(stats) |->
                    IF primary > 0
                    THEN ValueBasedName(stats[p].avgValues[primary], overallAvg,
                                        stats[p].size, Len(d))
                    ELSE SizeBasedName(stats[p].size, Len(d))]

(* ------------------------------------------------------ customer records *)
(* what reading an array at a 0-based index gives: the element, or         *)
(* undefined past the end                                                  *)
Undefined == "undefined"

ArrayAt(arr, idx) == IF idx + 1 <= Len(arr) THEN arr[idx + 1] ELSE Undefined

(* a variant that has no default for an undefined name *)
SegmentOfNoDefault(names, clusterId) == ArrayAt(names, clusterId)

(* segmentNames[clusterId] || `Segment ${clusterId + 1}` *)
SegmentOf(names, clusterId) ==
    IF ArrayAt(names, clusterId) \notin {Undefined, ""}
    THEN ArrayAt(names, clusterId)
    ELSE SegmentLabel(clusterId + 1)

customerSegments(flds, d, cr, names) ==
    LET nf == numericFields(flds, d)
        af == amountFields(flds)
    IN  [index \in 1..Len(d) |->
            LET clusterId == IF cr # Null THEN cr.clusters[index] ELSE 0
            IN  [row      |-> d[index],
                 id       |-> index,
                 cluster  |-> clusterId,
                 segment  |-> SegmentOf(names, clusterId),
                 monetary |-> IF Len(af) > 0
                              THEN OrZero(parseFloat(Get(flds, d[index], af[1])))
                              ELSE Finite(0),
                 features |-> [j \in 1..Len(nf) |-> ParseOrZero(Get(flds, d[index], nf[j]))]]]

(* the keys written after the spread in the object literal of a record *)
DerivedKeys == { <<"i","d">>, <<"c","l","u","s","t","e","r">>, <<"s","e","g","m","e","n","t">>,
                 <<"m","o","n","e","t","a","r","y">>, <<"f","e","a","t","u","r","e","s">> }

(* record[key] for a column name key of { ...customer, id, cluster,        *)
(* segment, monetary, features }: a key written after the spread replaces  *)
(* the column of the same name                                             *)
RecordField(flds, rec, key) ==
    IF key \in DerivedKeys
    THEN [derived |-> TRUE,
          value   |-> CASE key = <<"i","d">> -> rec.id
                        [] key = <<"c","l","u","s","t","e","r">> -> rec.cluster
                        [] key = <<"s","e","g","m","e","n","t">> -> rec.segment
                        [] key = <<"m","o","n","e","t","a","r","y">> -> rec.monetary
                        [] key = <<"f","e","a","t","u","r","e","s">> -> rec.features]
    ELSE [derived |-> FALSE, value |-> Get(flds, rec.row, key)]

(* ---------------------------------------------------- metrics aggregator *)
totalRevenue(flds, d) ==
    LET af == amountFields(flds)
    IN  IF Len(af) > 0
        THEN SumNumbers([i \in 1..Len(d) |-> OrZero(parseFloat(Get(flds, d[i], af[1])))])
        ELSE Finite(0)

(* totalRevenue / totalCustomers || 0 *)
avgOrderValue(flds, d) ==
    LET q == Quotient(totalRevenue(flds, d), Len(d))
    IN  IF q.nan \/ (q.inf = 0 /\ q.num = 0)
        THEN Quotient(Finite(0), 1)
        ELSE q

(* the reduce over the records: one key per segment name, keys in the      *)
(* order in which they are first inserted, each with its number of records *)
segmentCounts(cs) ==
    LET firsts == SelectSeq([i \in 1..Len(cs) |-> i],
                            LAMBDA i : \A h \in 1..(i - 1) : cs[h].segment # cs[i].segment)
    IN  [e \in 1..Len(firsts) |->
            [name  |-> cs[firsts[e]].segment,
             value |-> Cardinality({h \in 1..Len(cs) : cs[h].segment = cs[firsts[e]].segment})]]

segmentData(cs) ==
    LET counts == segmentCounts(cs)
    IN  [e \in 1..Len(counts) |->
            [name       |-> counts[e].name,
             value      |-> counts[e].value,
             percentage |-> Percentage(counts[e].value, Len(cs))]]

(* a variant that is not stable: an entry is placed before its equals *)
RECURSIVE SortByValueDescUnstable(_)
SortByValueDescUnstable(entries) ==
    IF entries = <<>> THEN <<>>
    ELSE LET front == SortByValueDescUnstable(SubSeq(entries, 1, Len(entries) - 1))
             x     == entries[Len(entries)]
             keep  == Cardinality({h \in 1..Len(front) : front[h].value > x.value})
         IN  SubSeq(front, 1, keep) \o <<x>> \o SubSeq(front, keep + 1, Len(front))

(* Array.prototype.sort((a, b) => b.value - a.value): stable, descending *)
RECURSIVE SortByValueDesc(_)
SortByValueDesc(entries) ==
    IF entries = <<>> THEN <<>>
    ELSE LET front == SortByValueDesc(SubSeq(entries, 1, Len(entries) - 1))
             x     == entries[Len(entries)]
             keep  == Cardinality({h \in 1..Len(front) : front[h].value >= x.value})
         IN  SubSeq(front, 1, keep) \o <<x>> \o SubSeq(front, keep + 1, Len(front))

topSegment(sorted) ==
    IF Len(sorted) > 0 /\ sorted[1].name # "" THEN sorted[1].name ELSE "Champions"

(* ------------------------------------------------------- monthly trend *)
(* a variant that reads every text as a date of January 2024 *)
NewDateLenient(v) ==
    CASE v.kind = "date" -> [valid |-> TRUE, year |-> v.n, month |-> v.month]
      [] v.kind \in {"text", "empty"} -> [valid |-> TRUE, year |-> 2024, month |-> 1]

(* new Date(value): the year and month (1..12) of a date string, invalid   *)
(* for a text that is no date and for the empty string                     *)
NewDate(v) ==
    CASE v.kind = "date" -> [valid |-> TRUE, year |-> v.n, month |-> v.month]
      [] v.kind \in {"text", "empty"} -> [valid |-> FALSE, year |-> 0, month |-> 0]

(* `${date.getFullYear()}-${String(date.getMonth() + 1).padStart(2, '0')}` *)
monthKey(date) == ToDigits(date.year) \o <<"-">> \o padStart(ToDigits(date.month), 2)

(* the reduce over the rows: one group per month key, in the order in      *)
(* which the keys are first inserted, with the number of its rows and the  *)
(* sum of their amounts; a row whose date is invalid is skipped            *)
monthGroups(flds, d) ==
    LET af        == amountFields(flds)
        column    == IndexOf(flds, dateFields(flds)[1])
        dates     == [i \in 1..Len(d) |-> NewDate(d[i][column])] \o <<>>
        keys      == [i \in 1..Len(d) |->
                         IF dates[i].valid THEN monthKey(dates[i]) ELSE <<>>] \o <<>>
        amounts   == [i \in 1..Len(d) |->
                         IF Len(af) > 0
                         THEN OrZero(parseFloat(Get(flds, d[i], af[1])))
                         ELSE Finite(0)] \o <<>>
        dated     == SelectSeq([i \in 1..Len(d) |-> i], LAMBDA i : dates[i].valid)
        firsts    == SelectSeq(dated, LAMBDA i : \A h \in 1..(i - 1) : keys[h] # keys[i])
    IN  [e \in 1..Len(firsts) |->
            LET rows == SelectSeq(dated, LAMBDA h : keys[h] = keys[firsts[e]])
            IN  [key     |-> keys[firsts[e]],
                 count   |-> Len(rows),
                 revenue |-> SumNumbers([r \in 1..Len(rows) |-> amounts[rows[r]]])]]

(* sort(([a], [b]) => a.localeCompare(b)) on groups, whose keys differ *)
SortByKey(groups) ==
    [p \in 1..Len(groups) |->
        groups[CHOOSE e \in 1..Len(groups) :
                  Cardinality({h \in 1..Len(groups) :
                                  ComparesBefore(groups[h].key, groups[e].key)}) = p - 1]]

TrendWindow == 12

(* array.slice(-count) *)
SliceLast(arr, count) ==
    IF Len(arr) <= count THEN arr ELSE SubSeq(arr, Len(arr) - count + 1, Len(arr))

MonthShort == <<"Jan","Feb","Mar","Apr","May","Jun","Jul","Aug","Sep","Oct","Nov","Dec">>

(* new Date(parseInt(year), parseInt(month) - 1).toLocaleDateString('en',  *)
(* {month: 'short', year: '2-digit'}) for the two parts of a month key:    *)
(* "Jan 24"; a year in 0..99 stands for 1900 + year, of the same two       *)
(* digits                                                                  *)
MonthLabel(key) ==
    LET hyphen == IndexOf(key, "-")
        year   == parseInt(SubSeq(key, 1, hyphen - 1))
        month  == parseInt(SubSeq(key, hyphen + 1, Len(key)))
    IN  <<MonthShort[month], " ">> \o padStart(ToDigits(year % 100), 2)

(* Math.round of a number of the monetary metrics: the finite ones are     *)
(* sums of integer amounts, which like NaN and the infinities round to     *)
(* themselves                                                              *)
RoundAmount(x) == x

(* the date-driven branch of monthlyData *)
MonthlyFromDates(flds, d) ==
    LET kept == SliceLast(SortByKey(monthGroups(flds, d)), TrendWindow)
    IN  [e \in 1..Len(kept) |->
            [month     |-> MonthLabel(kept[e].key),
             customers |-> kept[e].count,
             revenue   |-> RoundAmount(kept[e].revenue)]]

(* Math.round((totalRevenue / 12) * (0.8 + Math.random() * 0.4)) where the *)
(* random number is draw / 2, that is 0 or 0.5 and the factor 0.8 or 1     *)
JitteredRevenue(total, draw) ==
    IF total.nan \/ total.inf # 0 THEN total
    ELSE Finite(((2 * total.n * (8 + (2 * draw))) + 120) \div 240)

(* the fallback branch of monthlyData: twelve month names from January,    *)
(* the rows spread over them, a jittered twelfth of the revenue            *)
MonthlyFallback(flds, d, draws) ==
    LET itemsPerMonth == (Len(d) + 11) \div 12
    IN  [m \in 1..12 |->
            [month     |-> <<MonthShort[m]>>,
             customers |-> Min(itemsPerMonth, Len(d) - ((m - 1) * itemsPerMonth)),
             revenue   |-> JitteredRevenue(totalRevenue(flds, d), draws[m])]]

monthlyData(flds, d, draws) ==
    IF Len(dateFields(flds)) > 0
    THEN MonthlyFromDates(flds, d)
    ELSE MonthlyFallback(flds, d, draws)

(* the object returned by the useMemo callback; sort() works in place, so  *)
(* the segmentData it holds is the array after the sort of topSegment      *)
Insights(flds, d, cr, names, draws) ==
    LET cs     == customerSegments(flds, d, cr, names)
        sorted == SortByValueDesc(segmentData(cs))
    IN  [totalCustomers   |-> Len(d),
         totalRevenue     |-> totalRevenue(flds, d),
         avgOrderValue    |-> avgOrderValue(flds, d),
         monthlyData      |-> monthlyData(flds, d, draws),
         customerSegments |-> cs,
         segmentData      |-> sorted,
         numericFields    |-> numericFields(flds, d),
         fields           |-> flds,
         topSegment       |-> topSegment(sorted)]

(* ----------------------------------------------------------------- inputs *)
Age == <<"a","g","e">>
TotalAmount == <<"t","o","t","a","l","_","a","m","o","u","n","t">>

OrderValue == <<"O","r","d","e","r","V","a","l","u","e">>

AgeColumn    == [name |-> Age, cells |-> {Num(1), Text}]
AmountColumn == [name |-> TotalAmount, cells |-> {Num(-2), Num(1), Num(4), Text}]
ValueColumn  == [name |-> OrderValue, cells |-> {Num(1), Num(4)}]

OrderDate == <<"o","r","d","e","r","_","d","a","t","e">>
ValueTier == <<"v","a","l","u","e","_","t","i","e","r">>
Revenue == <<"r","e","v","e","n","u","e">>
Quantity == <<"q","u","a","n","t","i","t","y">>

(* dates of two years whose numbers differ in length, and a text *)
DateColumn     == [name |-> OrderDate, cells |-> {DateCell(2024, 1), DateCell(999, 12), Text}]
PaidColumn     == [name |-> TotalAmount, cells |-> {Num(4), Text}]
(* a column with a monetary name that holds no number *)
TierColumn     == [name |-> ValueTier, cells |-> {Text}]
(* amounts beyond the range of a double *)
RevenueColumn  == [name |-> Revenue, cells |-> {Overflow(1), Overflow(-1), Text}]
(* "4abc", the empty string and a number *)
QuantityColumn == [name |-> Quantity, cells |-> {Prefix(4), Empty, Num(1)}]

Schemas == { <<AgeColumn>>, <<AmountColumn>>, <<AgeColumn, ValueColumn>>,
             <<DateColumn, PaidColumn>>, <<TierColumn, ValueColumn>>,
             <<RevenueColumn>>, <<QuantityColumn>> }

NamesOf(schema) == [j \in 1..Len(schema) |-> schema[j].name]

RowsOf(schema) ==
    { r \in [1..Len(schema) -> UNION {schema[j].cells : j \in 1..Len(schema)}] :
        \A j \in 1..Len(schema) : r[j] \in schema[j].cells }

(* every dataset of at most MaxRows rows *)
SmallDatasets(schema) == UNION { [1..n -> RowsOf(schema)] : n \in 0..MaxRows }

(* larger datasets made of two runs of equal rows, so that the relative    *)
(* cluster sizes cross every threshold of the namer and the percentages    *)
(* include quotients that are not exact in binary                          *)
BulkShapes == { <<1, 4>>, <<1, 6>>, <<1, 9>>, <<23, 17>> }

BulkDatasets(schema) ==
    { Repeat(r1, sh[1]) \o Repeat(r2, sh[2]) :
        r1 \in RowsOf(schema), r2 \in RowsOf(schema), sh \in BulkShapes }

(* ten rows, total_amount = 100 nine times and 10000 once *)
Scenario ==
    [fields |-> <<TotalAmount>>,
     data   |-> Repeat(<<Num(100)>>, 9) \o << <<Num(10000)>> >>]

(* one row a month with an amount of 4, the months given as                *)
(* <<year, month>>                                                         *)
MonthlyRows(months) ==
    [fields |-> <<OrderDate, TotalAmount>>,
     data   |-> [i \in 1..Len(months) |-> <<DateCell(months[i][1], months[i][2]), Num(4)>>]]

(* fifteen consecutive months, from March 2024 back to January 2023 *)
TrendScenario ==
    MonthlyRows([i \in 1..15 |-> IF i <= 3 THEN <<2024, 4 - i>> ELSE <<2023, 16 - i>>])

(* the twelve months of 2024 and one month of the year 999 *)
OldYearScenario ==
    MonthlyRows([i \in 1..13 |-> IF i <= 12 THEN <<2024, i>> ELSE <<999, 6>>])

(* two rows of the sample data: the columns segment and total_spent *)
SampleScenario ==
    [fields |-> << <<"s","e","g","m","e","n","t">>,
                   <<"t","o","t","a","l","_","s","p","e","n","t">> >>,
     data   |-> << <<Text, Num(4)>>, <<Text, Num(1)>> >>]

(* a column whose only number comes after `before` rows of text *)
LateNumber(before) ==
    [fields |-> <<Quantity>>,
     data   |-> Repeat(<<Text>>, before) \o << <<Num(1)>> >>]

Inputs ==
    UNION { { [fields |-> NamesOf(schema), data |-> d] :
                d \in SmallDatasets(schema) \cup BulkDatasets(schema) } :
            schema \in Schemas }
    \cup { Scenario, TrendScenario, OldYearScenario, SampleScenario,
           LateNumber(SampleRows - 1), LateNumber(SampleRows) }

(* the values of Math.random() in the fallback trend, in halves: all 0,    *)
(* or 0.5 and 0 in turn; the date-driven trend draws none                  *)
RandomDraws(flds) ==
    IF Len(dateFields(flds)) > 0 THEN { <<>> }
    ELSE { [m \in 1..12 |-> 0], [m \in 1..12 |-> m % 2] }

(* ------------------------------------------------------------------ model *)
TypeOK ==
    /\ pc \in {"mounted", "rendered", "idle", "matrix", "normalized",
                "received", "calling", "served"}
    /\ kmeansCalls \in 0..(MaxLoads + MaxUploads)
    /\ isLoading \in BOOLEAN
    /\ loadingAI \in BOOLEAN
    /\ Len(pending) <= 1

(* nothing analysed yet *)
NoAnalysis ==
    /\ clusterResults = Null
    /\ kmeansCalls = 0
    /\ segmentNames = <<>>
    /\ insights = Null
    /\ kValue = 0

(* useState(''), useState(false), useState('detailed'); no request sent *)
NoRequests ==
    /\ aiInsights = <<>>
    /\ loadingAI = FALSE
    /\ reportType = "detailed"
    /\ pending = <<>>
    /\ aiRequests = 0
    /\ loads = 0

(* FileUpload as mounted: no file, not loading, an empty csv_uploads table *)
NoUploads ==
    /\ uploadedFile = Null
    /\ fileSize = 0
    /\ isLoading = FALSE
    /\ previousUploads = <<>>
    /\ uploadToast = ""
    /\ csvUploads = <<>>
    /\ handlers = <<>>

(* no invocation of the generate-insights function *)
NoServe ==
    /\ request = Null
    /\ env = Null
    /\ log = <<>>
    /\ response = Null

(* the dashboard mounted with a dataset *)
Init ==
    /\ \E in \in Inputs : fields = in.fields /\ data = in.data
    /\ pc = "mounted"
    /\ NoAnalysis
    /\ NoRequests
    /\ NoUploads
    /\ NoServe
    /\ matrix = <<>>
    /\ normalized = <<>>

(* !data || data.length === 0 *)
NoData(d) == Len(d) = 0

(* a variant that keeps the result of the previous analysis *)
EmptyResultStale == insights

(* return null *)
EmptyResult == Null

(* the useMemo callback of `insights`, run when the component renders with *)
(* its data                                                                *)
Analyze ==
    /\ pc = "mounted"
    /\ pc' = "rendered"
    /\ IF NoData(data)
       THEN /\ insights' = EmptyResult
            /\ clusterResults' = Null
            /\ segmentNames' = <<>>
            /\ kValue' = 0
            /\ UNCHANGED kmeansCalls
       ELSE \E cr \in ClusterResultsFor(fields, data), draws \in RandomDraws(fields) :
            LET names == generateSegmentNames(fields, data, cr)
            IN  /\ clusterResults' = cr
                /\ kValue' = ClusterCount(data)
                /\ kmeansCalls' = kmeansCalls + (IF KmeansInvoked(fields, data) THEN 1 ELSE 0)
                /\ segmentNames' = names
                /\ insights' = Insights(fields, data, cr, names, draws)
    /\ UNCHANGED <<fields, data, matrix, normalized, sessionVars, uploadVars, serveVars>>

Next == Analyze

Spec == Init /\ [][Next]_vars

(* ------------------------------------------------------------- normalizer *)
(* normalizeData applied to matrices of up to MaxRows rows and two         *)
(* columns, each column of integers or of decimals                         *)
Columns(n) ==
    [1..n -> { Exact(-2), Exact(1), Exact(4) }] \cup [1..n -> { Decimal(1, 10), Decimal(3, 10) }]

Matrices ==
    UNION { { [i \in 1..n |-> [j \in 1..w |-> cols[j][i]]] : cols \in [1..w -> Columns(n)] } :
            n \in 0..MaxRows, w \in 0..2 }

InitNormalize ==
    /\ matrix \in Matrices
    /\ normalized = <<>>
    /\ pc = "matrix"
    /\ fields = <<>>
    /\ data = <<>>
    /\ NoAnalysis
    /\ NoRequests
    /\ NoUploads
    /\ NoServe

Normalize ==
    /\ pc = "matrix"
    /\ pc' = "normalized"
    /\ normalized' = normalizeData(matrix)
    /\ UNCHANGED <<fields, data, clusterResults, kmeansCalls, segmentNames, insights,
                   kValue, matrix, sessionVars, uploadVars, serveVars>>

NextNormalize == Normalize

SpecNormalize == InitNormalize /\ [][NextNormalize]_vars

(* ----------------------------------------------------------------- session *)
(* The dashboard page: it starts without data, datasets are loaded and     *)
(* removed, each change of the data renders the analysis again, the effect *)
(* on `insights` asks for the AI insights and the answer comes later.      *)
(* single-column datasets of one or two rows *)
SessionInputs ==
    { [fields |-> <<TotalAmount>>, data |-> d] :
        d \in { << <<Num(1)>> >>, << <<Num(1)>>, <<Num(4)>> >>, << <<Text>>, <<Num(4)>> >> } }

(* const [customerData, setCustomerData] = useState<any[]>([]) *)
InitSession ==
    /\ fields = <<>>
    /\ data = <<>>
    /\ pc = "mounted"
    /\ NoAnalysis
    /\ NoRequests
    /\ NoUploads
    /\ NoServe
    /\ matrix = <<>>
    /\ normalized = <<>>

(* new File([csvContent], 'sample_customers.csv', { type: 'text/csv' }) *)
SampleFile ==
    [name |-> <<"s","a","m","p","l","e","_","c","u","s","t","o","m","e","r","s",".","c","s","v">>,
     type |-> <<"t","e","x","t","/","c","s","v">>,
     size |-> 30,
     lines |-> <<>>]

(* loadSampleData: setUploadedFile, setFileSize, onFileUpload(sampleData)  *)
(* and the toast; the generated rows are those of SessionInputs            *)
LoadData ==
    /\ pc = "idle"
    /\ loads < MaxLoads
    /\ \E in \in SessionInputs : fields' = in.fields /\ data' = in.data
    /\ loads' = loads + 1
    /\ pc' = "mounted"
    /\ uploadedFile' = SampleFile
    /\ fileSize' = SampleFile.size
    /\ uploadToast' = "Sample data loaded!"
    /\ UNCHANGED <<clusterResults, kmeansCalls, segmentNames, insights, kValue,
                   matrix, normalized, aiInsights, loadingAI, reportType, pending, aiRequests,
                   isLoading, previousUploads, csvUploads, handlers, serveVars>>

(* removeFile, the button shown with the uploaded file:                   *)
(* setUploadedFile(null), setFileSize(0), onFileUpload([])                 *)
RemoveFile ==
    /\ pc = "idle"
    /\ uploadedFile # Null
    /\ uploadedFile' = Null
    /\ fileSize' = 0
    /\ data' = <<>>
    /\ fields' = <<>>
    /\ pc' = "mounted"
    /\ UNCHANGED <<analysisVars, matrix, normalized, sessionVars,
                   isLoading, previousUploads, uploadToast, csvUploads, handlers, serveVars>>

(* the body of the generate-insights request *)
RequestBody(type) ==
    [segments |-> insights.segmentData,
     metrics  |-> [totalCustomers |-> insights.totalCustomers,
                   totalRevenue   |-> insights.totalRevenue,
                   avgOrderValue  |-> insights.avgOrderValue,
                   topSegment     |-> insights.topSegment],
     trends   |-> insights.monthlyData,
     type     |-> type]

(* fetchAIInsights(type) up to the invoke: nothing without insights,       *)
(* otherwise setLoadingAI(true), setReportType(type) and the request       *)
fetchAIInsights(type) ==
    IF insights = Null
    THEN UNCHANGED <<loadingAI, reportType, pending, aiRequests>>
    ELSE /\ loadingAI' = TRUE
         /\ reportType' = type
         /\ pending' = Append(pending, RequestBody(type))
         /\ aiRequests' = aiRequests + 1

(* useEffect(..., [insights]): fetchAIInsights('detailed') when there are  *)
(* insights, no text yet and no request under way                          *)
AutoFetch ==
    /\ pc = "rendered"
    /\ pc' = "idle"
    /\ IF insights # Null /\ aiInsights = <<>> /\ ~loadingAI
       THEN fetchAIInsights("detailed")
       ELSE UNCHANGED <<loadingAI, reportType, pending, aiRequests>>
    /\ UNCHANGED <<fields, data, clusterResults, kmeansCalls, segmentNames, insights,
                   kValue, matrix, normalized, aiInsights, loads, uploadVars, serveVars>>

(* a variant in which the buttons are never disabled *)
ButtonsDisabledNever == FALSE

(* disabled={loadingAI} *)
ButtonsDisabled == loadingAI

(* the buttons "Executive Summary" and "Detailed Report": they are part   *)
(* of the page rendered with insights and are disabled while loadingAI     *)
Generate ==
    /\ pc = "idle"
    /\ insights # Null
    /\ ~ButtonsDisabled
    /\ aiRequests < MaxRequests
    /\ \E type \in {"summary", "detailed"} : fetchAIInsights(type)
    /\ UNCHANGED <<fields, data, pc, clusterResults, kmeansCalls, segmentNames, insights,
                   kValue, matrix, normalized, aiInsights, loads, uploadVars, serveVars>>

(* the rest of fetchAIInsights once the invoke settles: a text (kept as    *)
(* the request it answers), a response without insights, or an error; in   *)
(* each case setLoadingAI(false)                                           *)
Respond ==
    /\ pc = "idle"
    /\ pending # <<>>
    /\ \E outcome \in {"insights", "none", "error"} :
          aiInsights' = IF outcome = "insights" THEN <<Head(pending)>> ELSE aiInsights
    /\ pending' = Tail(pending)
    /\ loadingAI' = FALSE
    /\ UNCHANGED <<fields, data, pc, clusterResults, kmeansCalls, segmentNames, insights,
                   kValue, matrix, normalized, reportType, aiRequests, loads, uploadVars, serveVars>>

NextSession == Analyze \/ AutoFetch \/ Generate \/ Respond \/ LoadData \/ RemoveFile

SpecSession == InitSession /\ [][NextSession]_vars

(* ------------------------------------------------------------------ upload *)
(* The FileUpload component: handleFile runs in steps separated by its     *)
(* awaits (file.text(), the insert, the select), and several invocations   *)
(* may be under way, since a file can be dropped while another is handled. *)
endsWith(str, suffix) ==
    /\ Len(suffix) <= Len(str)
    /\ SubSeq(str, Len(str) - Len(suffix) + 1, Len(str)) = suffix

(* !file.type.includes('csv') && !file.name.endsWith('.csv') *)
IsRejected(file) ==
    /\ ~includes(file.type, <<"c","s","v">>)
    /\ ~endsWith(file.name, <<".","c","s","v">>)

IsNonBlank(line) == line # <<>>

(* parseCSV on the lines of a text, a line being the list of its values    *)
(* and a blank line the empty list: the blank lines are dropped, fewer     *)
(* than two lines left is an error, the first line gives the headers, and  *)
(* a row has one value per header, '' where its line is too short          *)
parseCSV(lines) ==
    LET kept == SelectSeq(lines, IsNonBlank)
    IN  IF Len(kept) < 2
        THEN [ok |-> FALSE, fields |-> <<>>, data |-> <<>>]
        ELSE [ok     |-> TRUE,
              fields |-> kept[1],
              data   |-> [i \in 1..(Len(kept) - 1) |->
                            [j \in 1..Len(kept[1]) |->
                                IF j <= Len(kept[i + 1]) THEN kept[i + 1][j] ELSE Empty]]]

(* a CSV file of two rows with a blank line between them *)
GoodFile ==
    [name |-> <<"a",".","c","s","v">>, type |-> <<"t","e","x","t","/","c","s","v">>, size |-> 20,
     lines |-> << <<TotalAmount>>, <<Num(1)>>, <<>>, <<Num(4)>> >>]

(* a file without a type, named .csv, whose row lacks the second value *)
RaggedFile ==
    [name |-> <<"b",".","c","s","v">>, type |-> <<>>, size |-> 10,
     lines |-> << <<TotalAmount, Age>>, <<Num(4)>> >>]

(* a CSV file with the header line only *)
HeaderOnlyFile ==
    [name |-> <<"c",".","c","s","v">>, type |-> <<"t","e","x","t","/","c","s","v">>, size |-> 5,
     lines |-> << <<TotalAmount>>, <<>> >>]

(* a text file with the content of a CSV file *)
TextFile ==
    [name |-> <<"n",".","t","x","t">>, type |-> <<"t","e","x","t","/","p","l","a","i","n">>, size |-> 20,
     lines |-> << <<TotalAmount>>, <<Num(1)>> >>]

Files == { GoodFile, RaggedFile, HeaderOnlyFile, TextFile }

Remove(s, h) == SubSeq(s, 1, h - 1) \o SubSeq(s, h + 1, Len(s))

(* .order('uploaded_at', { ascending: false }).limit(5) *)
UploadsShown == 5

Latest(table) ==
    [i \in 1..Min(UploadsShown, Len(table)) |-> table[Len(table) + 1 - i]]

(* handleFile up to `await file.text()`: a file that is no CSV is refused  *)
(* with a toast, otherwise setIsLoading(true)                              *)
HandleFile ==
    /\ pc = "idle"
    /\ Len(csvUploads) + Len(handlers) < MaxUploads
    /\ \E file \in Files :
          IF IsRejected(file)
          THEN /\ uploadToast' = "Invalid file type"
               /\ UNCHANGED <<isLoading, handlers>>
          ELSE /\ isLoading' = TRUE
               /\ handlers' = Append(handlers, [file |-> file, step |-> "text"])
               /\ UNCHANGED uploadToast
    /\ UNCHANGED <<fields, data, pc, analysisVars, matrix, normalized, sessionVars,
                   uploadedFile, fileSize, previousUploads, csvUploads, serveVars>>

(* the catch and finally blocks of handleFile *)
Fails(h) ==
    /\ uploadToast' = "Error parsing CSV"
    /\ isLoading' = FALSE
    /\ handlers' = Remove(handlers, h)
    /\ UNCHANGED <<fields, data, pc, uploadedFile, fileSize, previousUploads, csvUploads>>

(* from the text of the file to `await supabase...insert(...)`: parseCSV   *)
(* throws on a text of fewer than two lines                                *)
ReadText ==
    /\ pc = "idle"
    /\ \E h \in 1..Len(handlers) :
          /\ handlers[h].step = "text"
          /\ IF ~parseCSV(handlers[h].file.lines).ok
             THEN Fails(h)
             ELSE /\ handlers' = [handlers EXCEPT ![h].step = "insert"]
                  /\ UNCHANGED <<fields, data, pc, uploadedFile, fileSize, isLoading,
                                 previousUploads, uploadToast, csvUploads>>
    /\ UNCHANGED <<analysisVars, matrix, normalized, sessionVars, serveVars>>

(* a variant that goes on after an error of the insert *)
ThrowsNever(dbError) == FALSE

(* if (dbError) throw new Error('Failed to save to database') *)
Throws(dbError) == dbError

(* from the answer of the insert to the select of the recent uploads: on   *)
(* an error the catch and finally blocks, otherwise setUploadedFile,       *)
(* setFileSize and onFileUpload(data)                                      *)
InsertDone ==
    /\ pc = "idle"
    /\ \E h \in 1..Len(handlers), dbError \in BOOLEAN :
          /\ handlers[h].step = "insert"
          /\ csvUploads' = IF dbError THEN csvUploads
                           ELSE Append(csvUploads, handlers[h].file.name)
          /\ IF Throws(dbError)
             THEN /\ uploadToast' = "Error parsing CSV"
                  /\ isLoading' = FALSE
                  /\ handlers' = Remove(handlers, h)
                  /\ UNCHANGED <<fields, data, pc, uploadedFile, fileSize>>
             ELSE /\ uploadedFile' = handlers[h].file
                  /\ fileSize' = handlers[h].file.size
                  /\ fields' = parseCSV(handlers[h].file.lines).fields
                  /\ data' = parseCSV(handlers[h].file.lines).data
                  /\ pc' = "mounted"
                  /\ handlers' = [handlers EXCEPT ![h].step = "refresh"]
                  /\ UNCHANGED <<isLoading, uploadToast>>
    /\ UNCHANGED <<analysisVars, matrix, normalized, sessionVars, previousUploads, serveVars>>

(* from the answer of the select to the end: setPreviousUploads when rows  *)
(* came back, the toast, and setIsLoading(false)                           *)
RefreshDone ==
    /\ pc = "idle"
    /\ \E h \in 1..Len(handlers), answered \in BOOLEAN :
          /\ handlers[h].step = "refresh"
          /\ previousUploads' = IF answered THEN Latest(csvUploads) ELSE previousUploads
          /\ handlers' = Remove(handlers, h)
    /\ uploadToast' = "File uploaded successfully!"
    /\ isLoading' = FALSE
    /\ UNCHANGED <<fields, data, pc, analysisVars, matrix, normalized, sessionVars,
                   uploadedFile, fileSize, csvUploads, serveVars>>

NextUpload ==
    HandleFile \/ ReadText \/ InsertDone \/ RefreshDone \/ RemoveFile
        \/ Analyze \/ AutoFetch \/ Respond

SpecUpload == InitSession /\ [][NextUpload]_vars

(* ------------------------------------------------------ generate-insights *)
(* One invocation of the edge function: the request, the environment, the  *)
(* lines written to the log (each the list of the values printed) and the  *)
(* response.  The handler runs in two steps, up to the fetch of the        *)
(* completion and after it.                                                *)
Methods == {"OPTIONS", "POST", "GET"}

(* the text of the request: no JSON, JSON without segments, or a full body *)
(* with or without a type                                                  *)
Bodies == { [json |-> FALSE, complete |-> FALSE, type |-> "undefined"],
            [json |-> TRUE,  complete |-> FALSE, type |-> "undefined"],
            [json |-> TRUE,  complete |-> TRUE,  type |-> "undefined"],
            [json |-> TRUE,  complete |-> TRUE,  type |-> "summary"],
            [json |-> TRUE,  complete |-> TRUE,  type |-> "detailed"] }

Origins == {"null", "https://app.example"}

Requests == [method : Methods, body : Bodies, origin : Origins]

(* Deno.env.get("OPENAI_API_KEY"): undefined, the empty string or a key *)
Environments == { [set |-> FALSE, value |-> "undefined"],
                  [set |-> TRUE, value |-> ""],
                  [set |-> TRUE, value |-> "sk-first"],
                  [set |-> TRUE, value |-> "sk-second"] }

(* what the completion endpoint answers: the fetch fails, a status that is *)
(* not ok, a body without choices, or a completion                         *)
Answers == {"unreachable", "refused", "malformed", "completion"}

InitServe ==
    /\ request \in Requests
    /\ env \in Environments
    /\ log = <<>>
    /\ response = Null
    /\ pc = "received"
    /\ fields = <<>>
    /\ data = <<>>
    /\ matrix = <<>>
    /\ normalized = <<>>
    /\ NoAnalysis
    /\ NoRequests
    /\ NoUploads

(* const { ..., type = "detailed" } = await req.json() *)
RequestedType(body) == IF body.type = "undefined" THEN "detailed" ELSE body.type

(* corsHeaders(origin) *)
corsHeaders(origin) == IF origin = "null" THEN "http://localhost:5173" ELSE origin

(* the catch block: console.error("generate-insights error:", e) and the   *)
(* response with e.message                                                 *)
Caught(printed, message) ==
    /\ log' = printed \o << <<"generate-insights error:", message>> >>
    /\ response' = [status |-> 500, allowOrigin |-> corsHeaders(request.origin),
                    body |-> <<"error", message>>]
    /\ pc' = "served"

(* the second argument of console.log("openai key", OPENAI_API_KEY) *)
LoggedKey == env.value

(* the handler up to the fetch of the completion *)
Receive ==
    /\ pc = "received"
    /\ IF request.method = "OPTIONS"
       THEN /\ response' = [status |-> 200, allowOrigin |-> corsHeaders(request.origin),
                            body |-> <<>>]
            /\ pc' = "served"
            /\ UNCHANGED log
       ELSE IF ~request.body.json
       THEN Caught(log, "Unexpected end of JSON input")
       ELSE LET printed == Append(log, <<"openai key", LoggedKey>>)
            IN  IF ~env.set \/ env.value = ""
                THEN Caught(printed, "OPENAI_API_KEY is not configured")
                ELSE IF ~request.body.complete
                THEN Caught(printed, "Cannot read properties of undefined (reading 'map')")
                ELSE /\ log' = printed
                     /\ pc' = "calling"
                     /\ UNCHANGED response
    /\ UNCHANGED <<fields, data, analysisVars, matrix, normalized, sessionVars, uploadVars,
                   request, env>>

(* the handler after the fetch *)
Complete ==
    /\ pc = "calling"
    /\ \E answer \in Answers :
          CASE answer = "unreachable" -> Caught(log, "fetch failed")
            [] answer = "malformed" ->
                  Caught(log, "Cannot read properties of undefined (reading '0')")
            [] answer = "refused" ->
                  /\ log' = Append(log, <<"OpenAI API error:", "401", "Unauthorized">>)
                  /\ response' = [status |-> 500, allowOrigin |-> corsHeaders(request.origin),
                                  body |-> <<"error", "OpenAI API error">>]
                  /\ pc' = "served"
            [] answer = "completion" ->
                  /\ response' = [status |-> 200, allowOrigin |-> corsHeaders(request.origin),
                                  body |-> <<"insights", RequestedType(request.body)>>]
                  /\ pc' = "served"
                  /\ UNCHANGED log
    /\ UNCHANGED <<fields, data, analysisVars, matrix, normalized, sessionVars, uploadVars,
                   request, env>>

NextServe == Receive \/ Complete

SpecServe == InitServe /\ [][NextServe]_vars

(* ================================================================ claims *)
Rendered == pc = "rendered" /\ Len(data) > 0

(* ---- C1 ---------------------------------------------------------------- *)
(* C1: for a non-empty dataset of n rows and any clustering result, the     *)
(* analysis yields exactly n records, the i-th one built from the i-th row  *)
(* (id i, the row's cells), each with a defined, non-empty segment name.    *)
C1_AssignmentComplete ==
    Rendered =>
        /\ insights # Null
        /\ Len(insights.customerSegments) = Len(data)
        /\ \A i \in 1..Len(data) :
              /\ insights.customerSegments[i].row = data[i]
              /\ insights.customerSegments[i].id = i
              /\ insights.customerSegments[i].segment \notin {Undefined, ""}

(* three rows, one of them in a cluster whose id is past the end of the     *)
(* list of generated names                                                  *)
C1_Witness ==
    /\ Rendered
    /\ Len(data) = 3
    /\ \E i \in 1..3 : insights.customerSegments[i].cluster + 1 > Len(segmentNames)

(* the statistics the namer computed for the clusters that have points *)
CurrentStats ==
    clusterStats(clusteringData(fields, data), clusterResults,
                 ClusterCount(data), numericFields(fields, data))

CurrentPrimary == primaryValueFieldIdx(numericFields(fields, data), amountFields(fields))

CurrentOverallAvg ==
    [num |-> SumSeq([i \in 1..Len(data) |-> clusteringData(fields, data)[i][CurrentPrimary]]),
     den |-> Len(data)]

(* the namer went through the cluster statistics (no early return) *)
StatsNamed == Rendered /\ clusterResults # Null /\ Len(numericFields(fields, data)) > 0

(* ---- C2 ---------------------------------------------------------------- *)
(* C2: the segment name of a record is the name computed from the           *)
(* statistics of the cluster id the record is assigned to, also when some   *)
(* ids in 0..k-1 have no members.                                           *)
C2_NameOfOwnCluster ==
    StatsNamed =>
        \A i \in 1..Len(data) :
            \E p \in 1..Len(CurrentStats) :
                /\ CurrentStats[p].clusterId = clusterResults.clusters[i]
                /\ insights.customerSegments[i].cluster = clusterResults.clusters[i]
                /\ insights.customerSegments[i].segment = segmentNames[p]

(* ---- C3 ---------------------------------------------------------------- *)
(* ratio > tenths / 10, where ratio = avgValue / overallAvg, overallAvg # 0 *)
RatioAbove(avgValue, overallAvg, tenths) ==
    IF overallAvg.num > 0
    THEN avgValue.num * overallAvg.den * 10 > tenths * avgValue.den * overallAvg.num
    ELSE avgValue.num * overallAvg.den * 10 < tenths * avgValue.den * overallAvg.num

RatioName(avgValue, overallAvg, size, total) ==
    IF RatioAbove(avgValue, overallAvg, 15)
    THEN IF RelativeSizeAbove(size, total, 15) THEN "High Value" ELSE "Premium"
    ELSE IF RatioAbove(avgValue, overallAvg, 8)
    THEN IF RelativeSizeAbove(size, total, 25) THEN "Core Customers" ELSE "Regular"
    ELSE IF RatioAbove(avgValue, overallAvg, 3)
    THEN "Potential Growth"
    ELSE IF RelativeSizeAbove(size, total, 20) THEN "Entry Level" ELSE "At Risk"

(* C3: with a primary monetary feature, the name of each non-empty cluster  *)
(* is decided by ratio = cluster mean / overall mean (thresholds 1.5, 0.8,  *)
(* 0.3) and relativeSize (0.15, 0.25, 0.2), whatever the sign of the        *)
(* values (overall mean not 0, the case of C4).                             *)
C3_NamedByRatio ==
    (StatsNamed /\ CurrentPrimary > 0 /\ CurrentOverallAvg.num # 0) =>
        \A p \in 1..Len(CurrentStats) :
            segmentNames[p] = RatioName(CurrentStats[p].avgValues[CurrentPrimary],
                                        CurrentOverallAvg, CurrentStats[p].size, Len(data))

(* ---- C4 ---------------------------------------------------------------- *)
(* C4: when the overall mean of the primary monetary feature is 0 the       *)
(* ratio counts as 0: every cluster is named "Entry Level" (relativeSize    *)
(* above 0.2) or "At Risk", whatever its own mean.                          *)
C4_ZeroOverallMean ==
    (StatsNamed /\ CurrentPrimary > 0 /\ CurrentOverallAvg.num = 0) =>
        \A p \in 1..Len(CurrentStats) :
            segmentNames[p] = IF RelativeSizeAbove(CurrentStats[p].size, Len(data), 20)
                              THEN "Entry Level" ELSE "At Risk"

(* ---- C5 ---------------------------------------------------------------- *)
SizeBasedNames == {"Majority Segment", "Significant Group", "Niche Segment", "Emerging Group"}

(* C5: when no column name contains amount, revenue, value or total, every  *)
(* record's segment name is one of the four size-based names.               *)
C5_SizeBasedNamesOnly ==
    (Rendered /\ \A j \in 1..Len(fields) : ~IsAmountName(fields[j])) =>
        \A i \in 1..Len(data) : insights.customerSegments[i].segment \in SizeBasedNames

(* ---- C6 ---------------------------------------------------------------- *)
(* C6: without any numeric field k-means is not invoked, every row gets     *)
(* cluster id 0 and the name is the size-based one (of a cluster holding    *)
(* every row).                                                              *)
C6_NoNumericFieldSkipsClustering ==
    (Rendered /\ insights.numericFields = <<>>) =>
        /\ kmeansCalls = 0
        /\ \A i \in 1..Len(data) :
              /\ insights.customerSegments[i].cluster = 0
              /\ insights.customerSegments[i].segment = SizeBasedName(Len(data), Len(data))

(* ---- C7 ---------------------------------------------------------------- *)
(* C7: in the ten-row scenario (nine rows of 100, one of 10000, k = 5),     *)
(* whenever the 10000 row is alone in its cluster and the nine 100 rows     *)
(* share another one, whatever the two ids, the 10000 row is "Premium" and  *)
(* every 100 row is "Entry Level", the overall average being 10900 / 10.    *)
C7_ScenarioNames ==
    ( /\ pc = "rendered"
      /\ fields = Scenario.fields
      /\ data = Scenario.data
      /\ \A i \in 1..9 : clusterResults.clusters[i] = clusterResults.clusters[1]
      /\ clusterResults.clusters[10] # clusterResults.clusters[1] ) =>
        /\ insights.customerSegments[10].segment = "Premium"
        /\ \A i \in 1..9 : insights.customerSegments[i].segment = "Entry Level"
        /\ insights.totalRevenue = Finite(10900)
        /\ insights.totalCustomers = 10

(* ---- C8 ---------------------------------------------------------------- *)
RecordsNamed(name) ==
    {i \in 1..Len(insights.customerSegments) : insights.customerSegments[i].segment = name}

(* round-half-up of value / total * 100, on the exact quotient *)
RoundHalfUpPercent(value, total) == ((200 * value) + total) \div (2 * total)

(* C8: segmentDistribution has one entry per distinct segment name of the   *)
(* records, its member count is the number of records bearing the name,     *)
(* the counts sum to totalCount, and its percentage is                      *)
(* round-half-up(memberCount / totalCount * 100), an integer in 0..100.     *)
C8_Distribution ==
    Rendered =>
        LET sd == insights.segmentData
        IN  /\ \A a, b \in 1..Len(sd) : sd[a].name = sd[b].name => a = b
            /\ {sd[e].name : e \in 1..Len(sd)} =
               {insights.customerSegments[i].segment : i \in 1..Len(data)}
            /\ \A e \in 1..Len(sd) : sd[e].value = Cardinality(RecordsNamed(sd[e].name))
            /\ SumSeq([e \in 1..Len(sd) |-> sd[e].value]) = insights.totalCustomers
            /\ \A e \in 1..Len(sd) :
                  /\ sd[e].percentage = RoundHalfUpPercent(sd[e].value, insights.totalCustomers)
                  /\ sd[e].percentage \in 0..100

(* ---- C9 ---------------------------------------------------------------- *)
PercentageSum ==
    SumSeq([e \in 1..Len(insights.segmentData) |-> insights.segmentData[e].percentage])

(* C9: for a non-empty dataset the percentages of the distribution sum to   *)
(* 100 up to one unit per entry.                                            *)
C9_PercentagesSum ==
    Rendered =>
        /\ PercentageSum - 100 <= Len(insights.segmentData)
        /\ 100 - PercentageSum <= Len(insights.segmentData)

(* a distribution of several entries whose percentages do not sum to 100 *)
C9_Witness ==
    /\ Rendered
    /\ Len(insights.segmentData) >= 2
    /\ PercentageSum # 100

(* ---- C10 --------------------------------------------------------------- *)
FirstRecordNamed(name) ==
    CHOOSE i \in RecordsNamed(name) : \A h \in RecordsNamed(name) : i <= h

(* C10: topSegmentName is the name of an entry with the largest member      *)
(* count, the one first met among the records in row order when several     *)
(* tie; "Champions" is never returned for a non-empty dataset.              *)
C10_TopSegment ==
    Rendered =>
        LET top == insights.topSegment
        IN  /\ top # "Champions"
            /\ RecordsNamed(top) # {}
            /\ \A i \in 1..Len(data) :
                  LET other == insights.customerSegments[i].segment
                  IN  \/ Cardinality(RecordsNamed(other)) < Cardinality(RecordsNamed(top))
                      \/ /\ Cardinality(RecordsNamed(other)) = Cardinality(RecordsNamed(top))
                         /\ FirstRecordNamed(top) <= FirstRecordNamed(other)

(* two segments tie for the largest count *)
C10_Witness ==
    /\ Rendered
    /\ \E i \in 1..Len(data) :
          /\ insights.customerSegments[i].segment # insights.topSegment
          /\ Cardinality(RecordsNamed(insights.customerSegments[i].segment))
               = Cardinality(RecordsNamed(insights.topSegment))

(* ---- C11 --------------------------------------------------------------- *)
(* the cell of row i in the first temporal column *)
DateOfRow(i) == data[i][IndexOf(fields, dateFields(fields)[1])]

HasTemporalField == \E j \in 1..Len(fields) : IsDateName(fields[j])

(* the rows whose value in the first temporal column is a date *)
DatedRows == IF HasTemporalField
             THEN {i \in 1..Len(data) : DateOfRow(i).kind = "date"}
             ELSE {}

(* the distinct <<year, month>> of the parseable dates *)
ParsedMonths == { <<DateOfRow(i).n, DateOfRow(i).month>> : i \in DatedRows }

Earlier(p, q) == p[1] < q[1] \/ (p[1] = q[1] /\ p[2] < q[2])

(* the e-th of the most recent min(m, 12) months, oldest first *)
RecentMonth(e) ==
    LET m == Cardinality(ParsedMonths)
    IN  CHOOSE p \in ParsedMonths :
            Cardinality({q \in ParsedMonths : Earlier(q, p)}) = m - Min(m, 12) + e - 1

(* "Jan 24": short month name and the last two digits of the year *)
ShortLabel(p) == <<MonthShort[p[2]], " ">> \o padStart(ToDigits(p[1] % 100), 2)

(* C11: when the parseable dates of the first temporal field span m        *)
(* distinct year-months, monthlyTrend has min(m, 12) entries, which are    *)
(* the chronologically most recent min(m, 12) months in ascending          *)
(* chronological order, whatever the number of digits of the years.        *)
C11_TrendWindow ==
    (Rendered /\ ParsedMonths # {}) =>
        /\ Len(insights.monthlyData) = Min(Cardinality(ParsedMonths), 12)
        /\ \A e \in 1..Len(insights.monthlyData) :
              insights.monthlyData[e].month = ShortLabel(RecentMonth(e))

(* ---- C12 --------------------------------------------------------------- *)
(* the rows whose date falls in the month shown under a label; the months  *)
(* of a dataset differ in their labels                                     *)
RowsOfMonth(label) ==
    LET dated == DatedRows
    IN  {i \in dated : ShortLabel(<<DateOfRow(i).n, DateOfRow(i).month>>) = label}

(* the primary monetary value of row i, 0 when it does not parse *)
AmountOfRow(i) ==
    LET af == amountFields(fields)
    IN  IF Len(af) > 0 /\ Get(fields, data[i], af[1]).kind \in {"num", "prefix", "date"}
        THEN Get(fields, data[i], af[1]).n
        ELSE 0

C13_FallbackWithoutDates ==
    (Rendered /\ DatedRows = {}) =>
        /\ Len(insights.monthlyData) = 12
        /\ \A m \in 1..12 : insights.monthlyData[m].month = <<MonthShort[m]>>

(* ---- C14 --------------------------------------------------------------- *)
(* C14: with one or more monetary columns, the feature whose cluster mean  *)
(* drives the segment names is the first monetary column, the one that is  *)
(* summed into totalMonetarySum and stored as monetaryValue.               *)
C14_SamePrimaryField ==
    (StatsNamed /\ amountFields(fields) # <<>>) =>
        /\ CurrentPrimary > 0
        /\ numericFields(fields, data)[CurrentPrimary] = amountFields(fields)[1]
        /\ insights.totalRevenue = Finite(SumSeq([i \in 1..Len(data) |-> AmountOfRow(i)]))
        /\ \A i \in 1..Len(data) :
              insights.customerSegments[i].monetary = Finite(AmountOfRow(i))

(* ---- C15 --------------------------------------------------------------- *)
(* C15: for a non-empty dataset averageMonetaryPerRecord is                *)
(* totalMonetarySum / totalCount, it is 0 without a monetary field or when *)
(* the sum is 0, and neither value is ever NaN, whatever the cells.        *)
C15_AverageDefined ==
    Rendered =>
        LET total == insights.totalRevenue
            avg   == insights.avgOrderValue
        IN  /\ ~total.nan
            /\ ~avg.nan
            /\ avg.inf = total.inf
            /\ avg.inf = 0 => avg.num * Len(data) = total.n * avg.den
            /\ (amountFields(fields) = <<>> \/ total = Finite(0)) => avg.num = 0

(* ---- C16 --------------------------------------------------------------- *)
(* the value parses to a finite number, as feature extraction parses it *)
ParsesToFinite(v) == ~parseFloat(v).nan /\ parseFloat(v).inf = 0

(* C16: a column is in numericFields exactly when one of its values among  *)
(* the first min(100, datasetSize) rows parses to a finite number, a value *)
(* that feature extraction parses to a number counting as numeric.         *)
C16_NumericClassification ==
    Rendered =>
        \A j \in 1..Len(fields) :
            (fields[j] \in Range(insights.numericFields))
              <=> (\E i \in 1..Min(100, Len(data)) : ParsesToFinite(data[i][j]))

(* ---- C17 --------------------------------------------------------------- *)
(* C17: a record's featureValues have one entry per numeric field, the     *)
(* parsed number of the row's value or 0 when it does not parse, and they  *)
(* are the row's vector of the extracted clustering data.                  *)
C17_FeatureVectors ==
    Rendered =>
        /\ Len(clusteringData(fields, data)) = Len(data)
        /\ \A i \in 1..Len(data) :
              LET features == insights.customerSegments[i].features
                  nf       == insights.numericFields
              IN  /\ Len(features) = Len(nf)
                  /\ \A j \in 1..Len(nf) :
                        features[j] = IF Get(fields, data[i], nf[j]).kind \in {"num", "prefix", "date"}
                                      THEN Get(fields, data[i], nf[j]).n
                                      ELSE 0
                  /\ features = clusteringData(fields, data)[i]

(* a numeric column with a value that does not parse and one that parses   *)
(* by its prefix only                                                      *)
C17_Witness ==
    /\ Rendered
    /\ Len(insights.numericFields) = 1
    /\ \E i, h \in 1..Len(data) :
          /\ Get(fields, data[i], insights.numericFields[1]).kind = "empty"
          /\ insights.customerSegments[i].features = <<0>>
          /\ Get(fields, data[h], insights.numericFields[1]).kind = "prefix"
          /\ insights.customerSegments[h].features = <<4>>

(* ---- C18 --------------------------------------------------------------- *)
(* C18: normalizeData maps every column whose values are all equal to a    *)
(* column of zeros, keeps the number of rows and of columns, and returns   *)
(* an empty matrix or a matrix of zero-width rows as it is.                *)
C18_ConstantColumnsToZero ==
    (pc = "normalized") =>
        /\ Len(normalized) = Len(matrix)
        /\ \A i \in 1..Len(matrix) : Len(normalized[i]) = Len(matrix[i])
        /\ (Len(matrix) = 0 \/ Len(matrix[1]) = 0) => normalized = matrix
        /\ Len(matrix) > 0 =>
              \A j \in 1..Len(matrix[1]) :
                  (\A i \in 1..Len(matrix) : matrix[i][j] = matrix[1][j])
                      => \A i \in 1..Len(matrix) : normalized[i][j].c = 0

(* ---- C19 --------------------------------------------------------------- *)
(* C19: for a non-empty dataset the number of clusters requested is        *)
(* min(5, datasetSize), between 1 and 5, and 1 for a single row; the ids   *)
(* assigned are below it.                                                  *)
C19_ClusterCount ==
    Rendered =>
        /\ kValue = (IF Len(data) < 5 THEN Len(data) ELSE 5)
        /\ kValue \in 1..5
        /\ Len(data) = 1 => kValue = 1
        /\ \A i \in 1..Len(data) : insights.customerSegments[i].cluster \in 0..(kValue - 1)

(* a dataset of more than five rows, and its fifth cluster in use *)
C19_Witness ==
    /\ Rendered
    /\ Len(data) > 5
    /\ kValue = 5
    /\ \E i \in 1..Len(data) : insights.customerSegments[i].cluster = 4

(* ---- C20 --------------------------------------------------------------- *)
(* C20: with an empty dataset, at the start or after the file is removed,  *)
(* the analysis yields no result (no metrics, segments or trend), no       *)
(* clustering is run and no AI-insight request is issued.                  *)
C20_EmptyDatasetNoAnalysis ==
    /\ []((Len(data) = 0 /\ pc # "mounted") =>
              (insights = Null /\ clusterResults = Null /\ segmentNames = <<>>))
    /\ [][Len(data) = 0 => (kmeansCalls' = kmeansCalls /\ aiRequests' = aiRequests)]_vars

(* the file has been removed after an analysis with clustering and a       *)
(* request, and the page has rendered again                                *)
C20_Witness ==
    /\ Len(data) = 0
    /\ pc = "idle"
    /\ loads >= 1
    /\ kmeansCalls >= 1
    /\ aiRequests >= 1
    /\ insights = Null

(* ---- C21 --------------------------------------------------------------- *)
(* C21: every record contains all columns of its row with their original  *)
(* values, also the columns named id, cluster, segment, monetary or        *)
(* features: record[c] = row[c] for every column name c.                   *)
C21_ColumnsKept ==
    Rendered =>
        \A i \in 1..Len(data) : \A j \in 1..Len(fields) :
            LET field == RecordField(fields, insights.customerSegments[i], fields[j])
            IN  /\ ~field.derived
                /\ field.value = data[i][j]

(* ---- C22 --------------------------------------------------------------- *)
(* the dataset to analyse is the one of the previous analysis *)
SameDatasetAgain ==
    /\ insights # Null
    /\ insights.fields = fields
    /\ Len(insights.customerSegments) = Len(data)
    /\ \A i \in 1..Len(data) : insights.customerSegments[i].row = data[i]

(* C22: segmentation is stable: analysing the same dataset twice yields    *)
(* the same cluster assignment and the same segment name for every record. *)
C22_StableSegmentation ==
    [][(pc = "mounted" /\ pc' = "rendered" /\ SameDatasetAgain) =>
          /\ clusterResults' = clusterResults
          /\ \A i \in 1..Len(data) :
                /\ insights'.customerSegments[i].cluster = insights.customerSegments[i].cluster
                /\ insights'.customerSegments[i].segment = insights.customerSegments[i].segment]_vars

(* ---- C23 --------------------------------------------------------------- *)
(* the amount of row i when it parses to a number that is not negative,    *)
(* 0 otherwise                                                             *)
NonNegativeAmountOfRow(i) == IF AmountOfRow(i) >= 0 THEN AmountOfRow(i) ELSE 0

(* C23: total revenue is the sum over the rows of the primary monetary     *)
(* amount where only non-negative amounts are added, so it is never        *)
(* negative.                                                               *)
C23_NonNegativeRevenue ==
    (Rendered /\ \A i \in 1..Len(data) : \A j \in 1..Len(fields) : data[i][j].kind # "inf") =>
        /\ insights.totalRevenue = Finite(SumSeq([i \in 1..Len(data) |-> NonNegativeAmountOfRow(i)]))
        /\ insights.totalRevenue.n >= 0

(* ---- C25 --------------------------------------------------------------- *)
(* the AI text is on the page: the analysis has a result and the text is   *)
(* not empty                                                               *)
TextDisplayed == pc \in {"rendered", "idle"} /\ insights # Null /\ aiInsights # <<>>

(* C25: whenever AI insight text is displayed together with the metrics,   *)
(* it was generated from the metrics of the dataset under analysis, also   *)
(* after the dataset has changed.                                          *)
C25_TextOfCurrentDataset ==
    TextDisplayed =>
        /\ aiInsights[1].metrics.totalCustomers = insights.totalCustomers
        /\ aiInsights[1].metrics.totalRevenue = insights.totalRevenue
        /\ aiInsights[1].metrics.avgOrderValue = insights.avgOrderValue

(* ---- C26 --------------------------------------------------------------- *)
(* C26: whenever aiInsights is not empty, reportType is the type of the    *)
(* request whose response produced the text, in every state.               *)
C26_ReportTypeOfText ==
    aiInsights # <<>> => reportType = aiInsights[1].type

(* ---- C27 --------------------------------------------------------------- *)
(* C27: at most one generate-insights request is in flight; a request is   *)
(* started only while loadingAI is false, loadingAI is true as long as the *)
(* request is outstanding and is false again when it completes, whatever   *)
(* its outcome.                                                            *)
C27_OneRequestInFlight ==
    /\ [](Len(pending) <= 1 /\ (loadingAI <=> pending # <<>>))
    /\ [][(aiRequests' # aiRequests) =>
             (~loadingAI /\ loadingAI' /\ aiRequests' = aiRequests + 1 /\ Len(pending') = 1)]_vars
    /\ [][(Len(pending') < Len(pending)) => ~loadingAI']_vars

(* a request started from a button is outstanding, after an earlier        *)
(* request has completed                                                   *)
C27_Witness ==
    /\ aiRequests >= 2
    /\ Len(pending) = 1
    /\ pending[1].type = "summary"
    /\ loadingAI

(* ---- C28 --------------------------------------------------------------- *)
(* C28: in the synthetic 12-bucket fallback every customer count is a      *)
(* non-negative integer and the 12 counts sum to the number of rows.       *)
C28_FallbackCounts ==
    (Rendered /\ ~HasTemporalField) =>
        /\ Len(insights.monthlyData) = 12
        /\ \A m \in 1..12 : insights.monthlyData[m].customers >= 0
        /\ SumSeq([m \in 1..12 |-> insights.monthlyData[m].customers]) = Len(data)

(* ---- C29 --------------------------------------------------------------- *)
(* C29: the segmentData of the analysis result has its entries in the      *)
(* order in which the segment names are first met among the records;       *)
(* computing topSegment does not change it.                                *)
C29_InsertionOrder ==
    Rendered =>
        \A e, f \in 1..Len(insights.segmentData) :
            e < f => FirstRecordNamed(insights.segmentData[e].name)
                        < FirstRecordNamed(insights.segmentData[f].name)

(* ---- C24 --------------------------------------------------------------- *)
(* a step in which an invocation of handleFile ends in failure: the file   *)
(* is refused, or the catch block runs                                     *)
HandleFileFails ==
    /\ uploadToast' \in {"Invalid file type", "Error parsing CSV"}
    /\ (uploadToast' # uploadToast \/ Len(handlers') < Len(handlers))

Written ==
    UNION { Range(log[i]) : i \in 1..Len(log) }
        \cup (IF response = Null THEN {} ELSE Range(response.body))

(* C30: the function never writes the value of the OPENAI_API_KEY secret   *)
(* to its log or to a response body, on any request path.                  *)
C30_KeyNotWritten ==
    (env.set /\ env.value # "") => env.value \notin Written

====
